---- MODULE Spec2Model ----
(***************************************************************************)
(* USTAR (Unitig STitch Advanced constRuction): the compacted de Bruijn    *)
(* graph (DBG.cpp) and the driver (ustar.cpp).                             *)
(*                                                                         *)
(* Strings are sequences of one-character strings.  C++ vectors are TLA+   *)
(* sequences; a C++ index i is position i + 1 of the sequence.             *)
(*                                                                         *)
(* The module holds several specifications over one set of variables:      *)
(*   SpecCover   the path-cover builder over DBG's neighbour queries       *)
(*   SpecSpell   DBG::spell and DBG::get_counts on paths of a graph        *)
(*   SpecParse   DBG::parse_bcalm_file, record by record                   *)
(*   SpecDriver  ustar.cpp: parse_cli, main and process_single_file        *)
(*   SpecOverlap DBG::verify_overlaps and DBG::reverse_complement          *)
(*   SpecValidate  DBG::validate on a file DBG::parse_bcalm_file read      *)
(*   SpecQuery   DBG::get_nodes_from and DBG::get_consistent_nodes_from,   *)
(*               called in turn on the same output vectors                 *)
(*   SpecPath    DBG::check_path_consistency on any two vectors            *)
(***************************************************************************)
EXTENDS Integers, Sequences, FiniteSets, TLC

VARIABLES
    kmer_size,      \* DBG::kmer_size
    nodes,          \* DBG::nodes, vector<node_t>
    pc,             \* position of the running procedure
    mask,           \* SPSS builder: vector<bool>, TRUE = placed in a path
    path_nodes,     \* the current path: node indices
    path_forwards,  \* the current path: orientation of every step
    paths,          \* the completed paths of the path cover
    to_nodes,       \* output vector of the neighbour queries
    to_forwards,    \* output vector of the neighbour queries
    contig,         \* what DBG::spell returned: [status, contig]
    counts,         \* the vector DBG::get_counts fills
    last,           \* the parser: the lines read last and what became of them
    params,         \* ustar.cpp: params_t, and whether -k was given
    file_list,      \* the inputs of the run: the lines of the file list
    file_pos,       \* how many lines of the file list have been read
    report,         \* per input: its outcome and its output files on disk
    exit_code,      \* the exit status of the process, "running" before
    tally,          \* main: [file_count, success_count]
    forwards,       \* output vector of get_nodes_from, with to_nodes and to_forwards
    query,          \* the neighbour query called last: [op, node, forward, thrown, calls]
    checked         \* the debug function called last, its input and its result

vars == <<kmer_size, nodes, pc, mask, path_nodes, path_forwards, paths,
          to_nodes, to_forwards, contig, counts, last, params, file_list,
          file_pos, report, exit_code, tally, forwards, query, checked>>

coverVars == <<mask, paths, to_nodes, to_forwards>>
spellVars == <<contig, counts>>
walkVars == <<mask, path_nodes, path_forwards, paths, to_nodes, to_forwards,
              contig, counts, forwards, query, checked>>
driverVars == <<params, file_list, file_pos, report, exit_code, tally>>
runVars == <<last, params, file_list, file_pos, report, exit_code, tally>>
queryVars == <<forwards, query, checked>>

(***************************************************************************)
(* Bounds of the model.                                                    *)
(***************************************************************************)
MaxNodes == 2       \* nodes of a graph of SpecCover
MaxArcs == 2        \* arcs of a graph of SpecCover, over all its nodes
MaxLen == 4         \* characters of a unitig of SpecSpell
MaxPath == 2        \* steps of a path handed to spell and get_counts
MaxRecords == 2     \* records the parser of SpecParse stores
MaxFiles == 2       \* lines of the file list of SpecDriver
MaxCalls == 2       \* neighbour queries of a run of SpecQuery

(***************************************************************************)
(* Generic helpers.                                                        *)
(***************************************************************************)
Range(s) == {s[i] : i \in 1..Len(s)}

Reverse(s) == [i \in 1..Len(s) |-> s[Len(s) + 1 - i]]

(***************************************************************************)
(* node_t and arc_t.  An arc leaves its node on side `forward`, and enters *)
(* node `successor` on side `to_forward`.                                  *)
(***************************************************************************)
arc_t(f, s, tf) == [forward |-> f, successor |-> s, to_forward |-> tf]

node_t(u, len, ab, arcs) ==
    [unitig |-> u, length |-> len, abundances |-> ab, arcs |-> arcs]

\* vector::at(i): the element, when i is in range (the caller tests InRange
\* first; out of range, at() throws std::out_of_range).
InRange(v, i) == i >= 0 /\ i < Len(v)

at(v, i) == v[i + 1]

(***************************************************************************)
(* DBG::get_consistent_nodes_from(node, forward, to_nodes, to_forwards,    *)
(* mask): clears both output vectors, then walks the arcs of the node in   *)
(* order; mask.at(arc.successor) is evaluated first, for every arc, and    *)
(* throws when the successor is no node index.                             *)
(* The result: [thrown, to_nodes, to_forwards].                            *)
(***************************************************************************)
RECURSIVE ConsistentWalk(_, _, _, _, _, _)
ConsistentWalk(arcs, i, forward, tn, tf, msk) ==
    IF i > Len(arcs) THEN [thrown |-> FALSE, to_nodes |-> tn, to_forwards |-> tf]
    ELSE LET arc == arcs[i] IN
         IF ~InRange(msk, arc.successor)
         THEN [thrown |-> TRUE, to_nodes |-> tn, to_forwards |-> tf]
         ELSE IF at(msk, arc.successor)
         THEN ConsistentWalk(arcs, i + 1, forward, tn, tf, msk)
         ELSE IF arc.forward = forward
         THEN ConsistentWalk(arcs, i + 1, forward,
                             Append(tn, arc.successor), Append(tf, arc.to_forward), msk)
         ELSE ConsistentWalk(arcs, i + 1, forward, tn, tf, msk)

\* A slip: the masked successors are not skipped.
get_consistent_nodes_from_nomask(g, node, forward, tn0, tf0, msk) ==
    IF ~InRange(g, node)
    THEN [thrown |-> TRUE, to_nodes |-> <<>>, to_forwards |-> <<>>]
    ELSE ConsistentWalk(at(g, node).arcs, 1, forward, <<>>, <<>>,
                        [i \in 1..Len(msk) |-> FALSE])

\* A slip: the side the arc leaves the node on is not compared.
RECURSIVE AnySideWalk(_, _, _, _, _)
AnySideWalk(arcs, i, tn, tf, msk) ==
    IF i > Len(arcs) THEN [thrown |-> FALSE, to_nodes |-> tn, to_forwards |-> tf]
    ELSE LET arc == arcs[i] IN
         IF ~InRange(msk, arc.successor)
         THEN [thrown |-> TRUE, to_nodes |-> tn, to_forwards |-> tf]
         ELSE IF at(msk, arc.successor)
         THEN AnySideWalk(arcs, i + 1, tn, tf, msk)
         ELSE AnySideWalk(arcs, i + 1, Append(tn, arc.successor),
                          Append(tf, arc.to_forward), msk)

get_consistent_nodes_from_anyside(g, node, forward, tn0, tf0, msk) ==
    IF ~InRange(g, node)
    THEN [thrown |-> TRUE, to_nodes |-> <<>>, to_forwards |-> <<>>]
    ELSE AnySideWalk(at(g, node).arcs, 1, <<>>, <<>>, msk)

\* The walk on the vectors as the caller passed them, nothing cleared.
get_consistent_nodes_from_noclear(g, node, forward, tn0, tf0, msk) ==
    IF ~InRange(g, node)
    THEN [thrown |-> TRUE, to_nodes |-> tn0, to_forwards |-> tf0]
    ELSE ConsistentWalk(at(g, node).arcs, 1, forward, tn0, tf0, msk)

get_consistent_nodes_from(g, node, forward, tn0, tf0, msk) ==
    IF ~InRange(g, node)
    THEN [thrown |-> TRUE, to_nodes |-> <<>>, to_forwards |-> <<>>]
    ELSE ConsistentWalk(at(g, node).arcs, 1, forward, <<>>, <<>>, msk)

(***************************************************************************)
(* DBG::get_nodes_from(node, forwards, to_nodes, to_forwards, mask):       *)
(* clears to_nodes and to_forwards, not forwards, then pushes every arc    *)
(* whose successor is not masked on the three vectors.                     *)
(* The result: [thrown, forwards, to_nodes, to_forwards].                  *)
(***************************************************************************)
RECURSIVE NodesWalk(_, _, _, _, _, _)
NodesWalk(arcs, i, fw, tn, tf, msk) ==
    IF i > Len(arcs)
    THEN [thrown |-> FALSE, forwards |-> fw, to_nodes |-> tn, to_forwards |-> tf]
    ELSE IF ~InRange(msk, arcs[i].successor)
    THEN [thrown |-> TRUE, forwards |-> fw, to_nodes |-> tn, to_forwards |-> tf]
    ELSE IF at(msk, arcs[i].successor)
    THEN NodesWalk(arcs, i + 1, fw, tn, tf, msk)
    ELSE NodesWalk(arcs, i + 1, Append(fw, arcs[i].forward),
                   Append(tn, arcs[i].successor), Append(tf, arcs[i].to_forward), msk)

get_nodes_from(g, node, fw0, tn0, tf0, msk) ==
    IF ~InRange(g, node)
    THEN [thrown |-> TRUE, forwards |-> fw0, to_nodes |-> <<>>, to_forwards |-> <<>>]
    ELSE NodesWalk(at(g, node).arcs, 1, fw0, <<>>, <<>>, msk)

(***************************************************************************)
(* size_t arithmetic and std::string::substr.  TLC's integers are 32 bits  *)
(* wide: SizeMod stands for 2^64, far above every length of the model, so  *)
(* that a difference below zero wraps to a value no string is as long as.  *)
(***************************************************************************)
SizeMod == 2^30

SizeT(x) == x % SizeMod

Min(a, b) == IF a <= b THEN a ELSE b

\* s.substr(pos, n) throws std::out_of_range when pos > s.size().
substr_throws(s, pos) == pos > Len(s)

substr(s, pos, n) == SubSeq(s, pos + 1, pos + Min(n, Len(s) - pos))

\* s.substr(pos): to the end of the string.
substr_from(s, pos) == SubSeq(s, pos + 1, Len(s))

(***************************************************************************)
(* DBG::reverse_complement: [exit, s].  exit: an unknown nucleotide, the   *)
(* process ends with EXIT_FAILURE.                                         *)
(***************************************************************************)
Known == {"A", "a", "C", "c", "T", "t", "G", "g"}

\* A pairing that leaves G unpaired.
Complement_unpaired(c) ==
    CASE c \in {"A", "a"} -> "T"
      [] c \in {"C", "c"} -> "G"
      [] c \in {"T", "t"} -> "A"
      [] c \in {"G", "g"} -> "G"
      [] OTHER -> "?"

Complement(c) ==
    CASE c \in {"A", "a"} -> "T"
      [] c \in {"C", "c"} -> "G"
      [] c \in {"T", "t"} -> "A"
      [] c \in {"G", "g"} -> "C"
      [] OTHER -> "?"

reverse_complement(s) ==
    IF \E i \in 1..Len(s) : s[i] \notin Known
    THEN [exit |-> TRUE, s |-> <<>>]
    ELSE [exit |-> FALSE, s |-> [j \in 1..Len(s) |-> Complement(s[Len(s) + 1 - j])]]

(***************************************************************************)
(* DBG::overlaps(node, arc): "true", "false", "exit" (reverse_complement   *)
(* met an unknown nucleotide), "throw" (substr past the end) or "ub": the  *)
(* successor is read with nodes[...], unchecked, and is no node index.     *)
(***************************************************************************)
\* The two unitigs compared as stored, whatever the sides of the arc.
overlaps_as_stored(g, k, node, arc) ==
    IF ~InRange(g, arc.successor) THEN "ub"
    ELSE IF substr_throws(node.unitig, SizeT(Len(node.unitig) - k + 1)) THEN "throw"
    ELSE IF substr_from(node.unitig, SizeT(Len(node.unitig) - k + 1))
               = substr(at(g, arc.successor).unitig, 0, k - 1)
    THEN "true" ELSE "false"

overlaps(g, k, node, arc) ==
    LET succ == at(g, arc.successor).unitig
        pos1 == SizeT(Len(node.unitig) - k + 1)
        pos2 == SizeT(Len(succ) - k + 1)
        u1 == IF arc.forward
              THEN [exit |-> FALSE, s |-> substr_from(node.unitig, pos1)]
              ELSE reverse_complement(substr(node.unitig, 0, k - 1))
        u2 == IF arc.to_forward
              THEN [exit |-> FALSE, s |-> substr(succ, 0, k - 1)]
              ELSE reverse_complement(substr_from(succ, pos2))
    IN  IF arc.forward /\ substr_throws(node.unitig, pos1) THEN "throw"
        ELSE IF u1.exit THEN "exit"
        ELSE IF ~InRange(g, arc.successor) THEN "ub"
        ELSE IF ~arc.to_forward /\ substr_throws(succ, pos2) THEN "throw"
        ELSE IF u2.exit THEN "exit"
        ELSE IF u1.s = u2.s THEN "true" ELSE "false"

\* DBG::verify_overlaps: the arcs node by node, in order, up to the first
\* one that does not overlap; "true", "false", or what stopped overlaps.
RECURSIVE VerifyFrom(_, _, _, _)
VerifyFrom(g, k, v, i) ==
    IF v >= Len(g) THEN "true"
    ELSE IF i > Len(at(g, v).arcs) THEN VerifyFrom(g, k, v + 1, 1)
    ELSE LET o == overlaps(g, k, at(g, v), at(g, v).arcs[i])
         IN  IF o = "true" THEN VerifyFrom(g, k, v, i + 1) ELSE o

verify_overlaps(g, k) == VerifyFrom(g, k, 0, 1)

(***************************************************************************)
(* DBG::spell(path_nodes, forwards): [status, contig], status "ok", "exit" *)
(* (an inconsistent or empty path, an unknown nucleotide) or "throw"       *)
(* (nodes.at or substr out of range).                                      *)
(***************************************************************************)
SpellResult(st, c) == [status |-> st, contig |-> c]

RECURSIVE SpellExtend(_, _, _, _, _, _)
SpellExtend(g, k, pn, fw, i, c) ==
    IF i > Len(pn) THEN SpellResult("ok", c)
    ELSE IF ~InRange(g, pn[i]) THEN SpellResult("throw", c)
    ELSE LET unitig == at(g, pn[i]).unitig IN
         IF fw[i]
         THEN IF substr_throws(unitig, k - 1) THEN SpellResult("throw", c)
              ELSE SpellExtend(g, k, pn, fw, i + 1, c \o substr_from(unitig, k - 1))
         ELSE LET len == SizeT(Len(unitig) - (k - 1))
                  rc == reverse_complement(substr(unitig, 0, len))
              IN  IF rc.exit THEN SpellResult("exit", c)
                  ELSE SpellExtend(g, k, pn, fw, i + 1, c \o rc.s)

\* A slip: every step after the seed appends its whole oriented unitig.
spell_whole(g, k, pn, fw) ==
    IF Len(pn) # Len(fw) THEN SpellResult("exit", <<>>)
    ELSE IF pn = <<>> THEN SpellResult("exit", <<>>)
    ELSE IF ~InRange(g, pn[1]) THEN SpellResult("throw", <<>>)
    ELSE LET seed == IF fw[1] THEN [exit |-> FALSE, s |-> at(g, pn[1]).unitig]
                     ELSE reverse_complement(at(g, pn[1]).unitig)
         IN  IF seed.exit THEN SpellResult("exit", <<>>)
             ELSE SpellExtend(g, 1, pn, fw, 2, seed.s)

spell(g, k, pn, fw) ==
    IF Len(pn) # Len(fw) THEN SpellResult("exit", <<>>)
    ELSE IF pn = <<>> THEN SpellResult("exit", <<>>)
    ELSE IF ~InRange(g, pn[1]) THEN SpellResult("throw", <<>>)
    ELSE LET seed == IF fw[1] THEN [exit |-> FALSE, s |-> at(g, pn[1]).unitig]
                     ELSE reverse_complement(at(g, pn[1]).unitig)
         IN  IF seed.exit THEN SpellResult("exit", <<>>)
             ELSE SpellExtend(g, k, pn, fw, 2, seed.s)

(***************************************************************************)
(* DBG::get_counts(path_nodes, forwards, counts) appends to counts, step   *)
(* by step: [thrown, counts].  It reads forwards[i] for every i below      *)
(* path_nodes.size(): it is applied to vectors of one length.              *)
(***************************************************************************)
RECURSIVE get_counts_from(_, _, _, _, _)
get_counts_from(g, pn, fw, i, c) ==
    IF i > Len(pn) THEN [thrown |-> FALSE, counts |-> c]
    ELSE IF ~InRange(g, pn[i]) THEN [thrown |-> TRUE, counts |-> c]
    ELSE LET ab == at(g, pn[i]).abundances IN
         IF fw[i] THEN get_counts_from(g, pn, fw, i + 1, c \o ab)
         ELSE get_counts_from(g, pn, fw, i + 1, c \o Reverse(ab))

\* A slip: the abundances are read forward whatever the orientation.
RECURSIVE get_counts_stored(_, _, _, _)
get_counts_stored(g, pn, fw, c) ==
    IF pn = <<>> THEN [thrown |-> FALSE, counts |-> c]
    ELSE IF ~InRange(g, Head(pn)) THEN [thrown |-> TRUE, counts |-> c]
    ELSE get_counts_stored(g, Tail(pn), Tail(fw), c \o at(g, Head(pn)).abundances)

get_counts(g, pn, fw, c) == get_counts_from(g, pn, fw, 1, c)

(***************************************************************************)
(* DBG::check_path_consistency(path_nodes, forwards): "true", "false",     *)
(* "throw" (nodes.at on a node the graph has not) or "ub".  The loop runs  *)
(* while i < path_nodes.size() - 1, a size_t: on an empty path the bound   *)
(* wraps and path_nodes[0] is read from an empty vector.  An arc is found  *)
(* by its forward and its successor.                                       *)
(***************************************************************************)
RECURSIVE PathFrom(_, _, _, _)
PathFrom(g, pn, fw, i) ==
    IF i >= SizeT(Len(pn) - 1) THEN "true"
    ELSE IF ~InRange(pn, i) THEN "ub"
    ELSE IF ~InRange(g, at(pn, i)) THEN "throw"
    ELSE IF \E j \in 1..Len(at(g, at(pn, i)).arcs) :
               /\ at(g, at(pn, i)).arcs[j].forward = at(fw, i)
               /\ at(g, at(pn, i)).arcs[j].successor = at(pn, i + 1)
    THEN PathFrom(g, pn, fw, i + 1)
    ELSE "false"

check_path_consistency(g, pn, fw) ==
    IF Len(pn) # Len(fw) THEN "false" ELSE PathFrom(g, pn, fw, 0)

(***************************************************************************)
(* Text.  A line of the input file is a sequence of characters, without    *)
(* its line end.  Positions are those of C++: the first character is at 0. *)
(***************************************************************************)
NPOS == SizeMod - 1

Digits == <<"0", "1", "2", "3", "4", "5", "6", "7", "8", "9">>

IsDigit(c) == \E d \in 1..10 : Digits[d] = c

DigitVal(c) == (CHOOSE d \in 1..10 : Digits[d] = c) - 1

\* isspace
Spaces == {" ", "\t"}

\* The first position at or after p whose character is not in set (in set,
\* for SkipUntil), or the length of s.
RECURSIVE SkipWhile(_, _, _)
SkipWhile(s, p, set) ==
    IF p < Len(s) /\ s[p + 1] \in set THEN SkipWhile(s, p + 1, set) ELSE p

RECURSIVE SkipUntil(_, _, _)
SkipUntil(s, p, set) ==
    IF p < Len(s) /\ s[p + 1] \notin set THEN SkipUntil(s, p + 1, set) ELSE p

\* s.find(pat, from)
find(s, pat, from) ==
    LET hits == {q \in from..(Len(s) - Len(pat)) : SubSeq(s, q + 1, q + Len(pat)) = pat}
    IN  IF hits = {} THEN NPOS ELSE CHOOSE q \in hits : \A r \in hits : q <= r

RECURSIVE DecimalValue(_)
DecimalValue(ds) ==
    IF ds = <<>> THEN 0
    ELSE 10 * DecimalValue(SubSeq(ds, 1, Len(ds) - 1)) + DigitVal(ds[Len(ds)])

\* A decimal integer at p as %d, %zd, atoi and stoull read it: white space,
\* a sign, digits.  [ok, val, next]: ok is FALSE when there is no digit.
scan_int(s, p) ==
    LET q == SkipWhile(s, p, Spaces)
        signed == q < Len(s) /\ s[q + 1] \in {"+", "-"}
        b == IF signed THEN q + 1 ELSE q
        e == SkipWhile(s, b, {Digits[d] : d \in 1..10})
        mag == DecimalValue(SubSeq(s, b + 1, e))
    IN  [ok |-> e > b,
         val |-> IF signed /\ s[q + 1] = "-" THEN 0 - mag ELSE mag,
         next |-> e]

\* atoi(token): 0 when the token starts with no number.
atoi(tok) == LET r == scan_int(tok, 0) IN IF r.ok THEN r.val ELSE 0

\* strtok(s, " "), all its tokens: the runs of characters other than ' '.
RECURSIVE Tokens(_, _)
Tokens(s, p) ==
    LET a == SkipWhile(s, p, {" "}) IN
    IF a >= Len(s) THEN <<>>
    ELSE LET b == SkipUntil(s, a, {" "})
         IN  <<SubSeq(s, a + 1, b)>> \o Tokens(s, b)

(***************************************************************************)
(* DBG::parse_bcalm_file, one record: the def-line and the sequence line.  *)
(***************************************************************************)
TagLN == <<"L", "N", ":", "i", ":">>
TagAb == <<"a", "b", ":", "Z", ":">>
TagKa == <<"k", "a", ":", "f", ":">>

is_standard_format(line) ==
    find(line, TagLN, 0) # NPOS /\ find(line, TagAb, 0) # NPOS

is_alternative_format(line) == find(line, TagKa, 0) # NPOS

\* sscanf(line, "%*c %zd %*5c %d %[^\n]s", &serial, &node.length, dyn_line):
\* filled counts the conversions assigned; the others stay unset.
header_standard(line) ==
    LET a == scan_int(line, 1)
        p5 == SkipWhile(line, a.next, Spaces)
        b == scan_int(line, p5 + 5)
        rest == substr_from(line, SkipWhile(line, b.next, Spaces))
        got1 == a.ok
        got2 == got1 /\ p5 + 5 <= Len(line) /\ b.ok
        got3 == got2 /\ rest # <<>>
    IN  [filled |-> IF got3 THEN 3 ELSE IF got2 THEN 2 ELSE IF got1 THEN 1 ELSE 0,
         thrown |-> FALSE,
         serial |-> SizeT(a.val),
         length |-> b.val,
         dyn_line |-> rest]

\* The serial of the alternative form: after the first '_' when it is before
\* the first space, else after '>'; stoull throws when no number starts the
\* text.  dyn_line is the line after its first space.
header_alternative(line) ==
    LET underscore_pos == find(line, <<"_">>, 0)
        space_pos == find(line, <<" ">>, 1)
        serial_str == IF underscore_pos # NPOS /\ underscore_pos < space_pos
                      THEN substr(line, underscore_pos + 1,
                                  SizeT(space_pos - underscore_pos - 1))
                      ELSE substr(line, 1, SizeT(space_pos - 1))
        n == scan_int(serial_str, 0)
    IN  [filled |-> 3,
         thrown |-> ~n.ok,
         serial |-> SizeT(n.val),
         length |-> 0,
         dyn_line |-> substr_from(line, SizeT(space_pos + 1))]

\* The abundances of the standard form: strtok(dyn_line + 5, " "), the first
\* token always, then every token up to the first one that starts with 'L'.
\* [ub, abundances, arc_tokens]; ub: dyn_line is shorter than 5 characters,
\* or there is no token (atoi of a null pointer).
abundances_standard(dyn_line) ==
    LET toks == IF Len(dyn_line) < 5 THEN <<>> ELSE Tokens(dyn_line, 5)
        stop == IF \E j \in 2..Len(toks) : toks[j][1] = "L"
                THEN CHOOSE j \in 2..Len(toks) :
                        toks[j][1] = "L" /\ \A i \in 2..(j - 1) : toks[i][1] # "L"
                ELSE Len(toks) + 1
    IN  [ub |-> toks = <<>>,
         abundances |-> [j \in 1..(stop - 1) |-> atoi(toks[j])],
         average |-> 0,
         arc_tokens |-> SubSeq(toks, stop, Len(toks))]

\* The mean abundance of the alternative form: sscanf(dyn_line, "ka:f:%lf"),
\* of which the model keeps the integer part (the cast to uint32_t).  When
\* dyn_line holds "L:", the arcs are its tokens after the first.
\* ub: the conversion fails and the mean is read unset.
abundances_alternative(dyn_line) ==
    LET tagged == Len(dyn_line) >= 5 /\ SubSeq(dyn_line, 1, 5) = TagKa
        avg == scan_int(dyn_line, 5)
        toks == Tokens(dyn_line, 0)
    IN  [ub |-> ~tagged \/ ~avg.ok \/ avg.val < 0,
         abundances |-> <<>>,
         average |-> avg.val,
         arc_tokens |-> IF find(dyn_line, <<"L", ":">>, 0) # NPOS
                        THEN SubSeq(toks, 2, Len(toks)) ELSE <<>>]

\* sscanf(token, "%*2c %c %*c %d %*c %c", &s1, &arc.successor, &s2): [ub, arc];
\* ub: a conversion fails and s1 or s2 is read unset.
parse_arc(tok) ==
    LET q1 == SkipWhile(tok, 2, Spaces)
        q2 == SkipWhile(tok, q1 + 1, Spaces)
        n == scan_int(tok, q2 + 1)
        q3 == SkipWhile(tok, n.next, Spaces)
        q4 == SkipWhile(tok, q3 + 1, Spaces)
        complete == Len(tok) > q2 /\ n.ok /\ Len(tok) > q4
    IN  [ub |-> ~complete,
         arc |-> IF complete
                 THEN arc_t(tok[q1 + 1] = "+", SizeT(n.val), tok[q4 + 1] = "+")
                 ELSE arc_t(FALSE, 0, FALSE)]

\* The outcome of one record, with n nodes stored before it: status
\*   "stored"  the node is pushed
\*   "exit"    exit(EXIT_FAILURE)
\*   "throw"   a C++ exception leaves the parser (stoull, bad_alloc)
\*   "ub"      the behaviour is undefined (an unset variable is read)
\* seq: [eof, line], the sequence line or the end of the file.
RecordResult(st, std, alt, node, serial) ==
    [status |-> st, node |-> node, serial |-> serial,
     standard |-> std, alternative |-> alt]

NoNode == node_t(<<>>, 0, <<>>, <<>>)

\* The sequence line is read: the alternative form fills its abundances, a
\* loop that exhausts the memory when n_kmers has wrapped; then the number
\* of abundances is checked, and the node is stored.
record_sequence(seq, std, alt, h, abundances, arcs, n_kmers) ==
    IF ~std /\ n_kmers > Len(seq.line)
    THEN RecordResult("throw", std, alt, NoNode, h.serial)
    ELSE IF n_kmers # (IF std THEN Len(abundances) ELSE n_kmers)
    THEN RecordResult("exit", std, alt, NoNode, h.serial)
    ELSE RecordResult("stored", std, alt,
                      node_t(seq.line, IF std THEN h.length ELSE Len(seq.line),
                             IF std THEN abundances ELSE [i \in 1..n_kmers |-> abundances[1]],
                             [j \in 1..Len(arcs) |-> arcs[j].arc]),
                      h.serial)

\* The arcs are parsed, then getline reads the sequence line.
record_arcs(seq, k, std, alt, h, a, arcs) ==
    IF \E j \in 1..Len(arcs) : arcs[j].ub
    THEN RecordResult("ub", std, alt, NoNode, h.serial)
    ELSE IF seq.eof THEN RecordResult("exit", std, alt, NoNode, h.serial)
    ELSE record_sequence(seq, std, alt, h,
                         IF std THEN a.abundances ELSE <<a.average>>,
                         arcs, SizeT(Len(seq.line) - k + 1))

\* The serial is checked, then the abundances are parsed.
record_abundances(seq, n, k, std, alt, h, a) ==
    IF h.thrown THEN RecordResult("throw", std, alt, NoNode, 0)
    ELSE IF h.filled = 0 THEN RecordResult("ub", std, alt, NoNode, 0)
    ELSE IF h.serial # n THEN RecordResult("exit", std, alt, NoNode, h.serial)
    ELSE IF h.filled < 3 \/ a.ub THEN RecordResult("ub", std, alt, NoNode, h.serial)
    ELSE record_arcs(seq, k, std, alt, h, a,
                     [j \in 1..Len(a.arc_tokens) |-> parse_arc(a.arc_tokens[j])])

\* The def-line is parsed in the dialect found: the standard one when the
\* line matches both.
record_header(line, seq, n, k, std, alt, h) ==
    record_abundances(seq, n, k, std, alt, h,
                      IF std THEN abundances_standard(h.dyn_line)
                      ELSE abundances_alternative(h.dyn_line))

record_dialect(line, seq, n, k, std, alt) ==
    IF ~std /\ ~alt THEN RecordResult("exit", std, alt, NoNode, 0)
    ELSE record_header(line, seq, n, k, std, alt,
                       IF std THEN header_standard(line) ELSE header_alternative(line))

parse_record(line, seq, n, k) ==
    IF line = <<>> \/ line[1] # ">"
    THEN RecordResult("exit", FALSE, FALSE, NoNode, 0)
    ELSE record_dialect(line, seq, n, k,
                        is_standard_format(line), is_alternative_format(line))

(***************************************************************************)
(* DBG::parse_bcalm_file, the whole file.  A file is [readable, content],  *)
(* content the sequence of its lines.  [status, nodes]: status "ok", or    *)
(* what stopped the parser, with the nodes stored before.  Every line of   *)
(* the model is shorter than MAX_LINE_LEN.                                 *)
(***************************************************************************)
RECURSIVE ParseFrom(_, _, _, _)
ParseNext(lines, i, g, k, r) ==
    IF r.status = "stored" THEN ParseFrom(lines, i + 2, Append(g, r.node), k)
    ELSE [status |-> r.status, nodes |-> g]

ParseFrom(lines, i, g, k) ==
    IF i > Len(lines) THEN [status |-> "ok", nodes |-> g]
    ELSE IF lines[i] # <<>> /\ lines[i][1] = "#" THEN ParseFrom(lines, i + 1, g, k)
    ELSE ParseNext(lines, i, g, k,
                   parse_record(lines[i],
                                IF i < Len(lines) THEN [eof |-> FALSE, line |-> lines[i + 1]]
                                ELSE [eof |-> TRUE, line |-> <<>>],
                                Len(g), k))

parse_bcalm_file(file, k) ==
    IF ~file.readable THEN [status |-> "exit", nodes |-> <<>>]
    ELSE ParseFrom(file.content, 1, <<>>, k)

\* operator<< of an integer
RECURSIVE ToDecimal(_)
ToDecimal(n) ==
    IF n < 0 THEN <<"-">> \o ToDecimal(0 - n)
    ELSE IF n < 10 THEN <<Digits[n + 1]>>
    ELSE ToDecimal(n \div 10) \o <<Digits[(n % 10) + 1]>>

RECURSIVE Concat(_)
Concat(ss) == IF ss = <<>> THEN <<>> ELSE ss[1] \o Concat(SubSeq(ss, 2, Len(ss)))

Sign(f) == IF f THEN "+" ELSE "-"

\* DBG::to_bcalm_file: the lines it writes, two for every node.
to_bcalm_file(g) ==
    Concat([v \in 1..Len(g) |->
        << <<">">> \o ToDecimal(v - 1) \o <<" ", "L", "N", ":", "i", ":">> \o ToDecimal(g[v].length)
             \o <<" ", "a", "b", ":", "Z", ":">>
             \o Concat([j \in 1..Len(g[v].abundances) |->
                           ToDecimal(g[v].abundances[j]) \o <<" ">>])
             \o Concat([j \in 1..Len(g[v].arcs) |->
                           <<"L", ":", Sign(g[v].arcs[j].forward), ":">>
                           \o ToDecimal(g[v].arcs[j].successor)
                           \o <<":", Sign(g[v].arcs[j].to_forward), " ">>]),
           g[v].unitig >>])

\* operator>> into a string, all the way through a line: the runs of
\* characters that are not white space.
RECURSIVE WsTokens(_, _)
WsTokens(s, p) ==
    LET a == SkipWhile(s, p, Spaces) IN
    IF a >= Len(s) THEN <<>>
    ELSE LET b == SkipUntil(s, a, Spaces)
         IN  <<SubSeq(s, a + 1, b)>> \o WsTokens(s, b)

FileTokens(lines) == Concat([i \in 1..Len(lines) |-> WsTokens(lines[i], 0)])

\* DBG::validate: the graph is written back in the standard form and the
\* two files are compared token by token, as long as both have a token.
validate(file, g) ==
    LET tok1 == FileTokens(file.content)
        tok2 == FileTokens(to_bcalm_file(g))
    IN  \A i \in 1..Min(Len(tok1), Len(tok2)) : tok1[i] = tok2[i]

\* A slip: the verification never fails.
verify_input_lenient(file, g, k) ==
    [status |-> "ok", good |-> TRUE, validated |-> TRUE]

\* DBG::verify_input: [status, good, validated]; status "ok" when both checks
\* returned, else what stopped verify_overlaps.  validate runs whatever
\* verify_overlaps returned.
verify_input(file, g, k) ==
    LET o == verify_overlaps(g, k)
    IN  IF o \in {"true", "false"}
        THEN [status |-> "ok", good |-> o = "true" /\ validate(file, g),
              validated |-> TRUE]
        ELSE [status |-> o, good |-> FALSE, validated |-> FALSE]

\* The values of the variables a specification does not use.
NoRecord == [kind |-> "none"]
NoParams == [kmer_given |-> FALSE]
NoTally == [file_count |-> 0, success_count |-> 0]
NoQuery == [op |-> "none", calls |-> 0]
NoCheck == [op |-> "none"]

\* Nothing spelled yet.
NoContig == [status |-> "none", contig |-> <<>>]

(***************************************************************************)
(* The graphs of SpecCover: up to MaxNodes nodes and MaxArcs arcs, every   *)
(* arc with any two sides and any successor, a node of the graph, the node *)
(* itself (a self-referencing arc) or the index one past the last node (no *)
(* node: the parser does not check the successor of an arc).  The unitigs  *)
(* play no part in the path cover and are all the same.                    *)
(***************************************************************************)
ArcSet(n) == {arc_t(f, s, tf) : f \in BOOLEAN, s \in 0..n, tf \in BOOLEAN}

\* The arcs of node v among the (source, arc) pairs of `placed`, in order.
RECURSIVE ArcsOf(_, _)
ArcsOf(placed, v) ==
    IF placed = <<>> THEN <<>>
    ELSE IF Head(placed)[1] = v THEN <<Head(placed)[2]>> \o ArcsOf(Tail(placed), v)
    ELSE ArcsOf(Tail(placed), v)

CoverGraph(n, placed) ==
    [i \in 1..n |-> node_t(<<"A", "A", "A">>, 3, <<1>>, ArcsOf(placed, i - 1))]

\* nodes is one of the graphs of SpecCover.
IsCoverGraph(g) ==
    \E n \in 1..MaxNodes, m \in 0..MaxArcs :
        \E placed \in [1..m -> (0..(n - 1)) \X ArcSet(n)] : g = CoverGraph(n, placed)

(***************************************************************************)
(* The path-cover builder (SPSS): its source is not among the files of the *)
(* repository at hand; it is modelled from section 4.5 of the written      *)
(* specification, over DBG::get_consistent_nodes_from.  The seeding and    *)
(* the extending policy are any choice among the unmasked nodes and among  *)
(* the candidates.                                                         *)
(***************************************************************************)
Flip(fs) == [i \in 1..Len(fs) |-> ~fs[i]]

AllMasked == \A i \in 1..Len(mask) : mask[i]

\* Step 2: pick a seed, mark it, start a path.
PickSeed ==
    /\ pc = "pick"
    /\ \E seed \in 0..(Len(nodes) - 1), fwd \in BOOLEAN :
          /\ ~at(mask, seed)
          /\ mask' = [mask EXCEPT ![seed + 1] = TRUE]
          /\ path_nodes' = <<seed>>
          /\ path_forwards' = <<fwd>>
    /\ pc' = "forward"
    /\ UNCHANGED <<kmer_size, nodes, paths, to_nodes, to_forwards, spellVars, runVars, queryVars>>

\* Steps 3 and 4: one extension of the path at its tail.  In the backward
\* extension the path is held reversed, with every flag flipped.
Extend ==
    /\ pc \in {"forward", "backward"}
    /\ LET r == get_consistent_nodes_from(nodes, path_nodes[Len(path_nodes)],
                                          path_forwards[Len(path_forwards)],
                                          to_nodes, to_forwards, mask)
       IN  /\ ~r.thrown
           /\ r.to_nodes # <<>>
           /\ to_nodes' = r.to_nodes
           /\ to_forwards' = r.to_forwards
           /\ \E i \in 1..Len(r.to_nodes) :
                 /\ path_nodes' = Append(path_nodes, r.to_nodes[i])
                 /\ path_forwards' = Append(path_forwards, r.to_forwards[i])
                 /\ mask' = [mask EXCEPT ![r.to_nodes[i] + 1] = TRUE]
    /\ UNCHANGED <<kmer_size, nodes, pc, paths, spellVars, runVars, queryVars>>

\* The query throws std::out_of_range (mask.at of an arc to no node).
ExtendThrows ==
    /\ pc \in {"forward", "backward"}
    /\ LET r == get_consistent_nodes_from(nodes, path_nodes[Len(path_nodes)],
                                          path_forwards[Len(path_forwards)],
                                          to_nodes, to_forwards, mask)
       IN  /\ r.thrown
           /\ to_nodes' = r.to_nodes
           /\ to_forwards' = r.to_forwards
    /\ pc' = "thrown"
    /\ UNCHANGED <<kmer_size, nodes, mask, path_nodes, path_forwards, paths, spellVars, runVars, queryVars>>

\* Step 3 ends with no candidate: reverse the path and flip every flag.
BeginBackward ==
    /\ pc = "forward"
    /\ LET r == get_consistent_nodes_from(nodes, path_nodes[Len(path_nodes)],
                                          path_forwards[Len(path_forwards)],
                                          to_nodes, to_forwards, mask)
       IN  /\ ~r.thrown
           /\ r.to_nodes = <<>>
           /\ to_nodes' = r.to_nodes
           /\ to_forwards' = r.to_forwards
    /\ path_nodes' = Reverse(path_nodes)
    /\ path_forwards' = Flip(Reverse(path_forwards))
    /\ pc' = "backward"
    /\ UNCHANGED <<kmer_size, nodes, mask, paths, spellVars, runVars, queryVars>>

\* Step 4 ends with no candidate: un-flip, un-reverse; step 5: the path is
\* appended to the path cover.
FinishPath ==
    /\ pc = "backward"
    /\ LET r == get_consistent_nodes_from(nodes, path_nodes[Len(path_nodes)],
                                          path_forwards[Len(path_forwards)],
                                          to_nodes, to_forwards, mask)
       IN  /\ ~r.thrown
           /\ r.to_nodes = <<>>
           /\ to_nodes' = r.to_nodes
           /\ to_forwards' = r.to_forwards
    /\ paths' = Append(paths, [nodes |-> Reverse(path_nodes),
                               forwards |-> Flip(Reverse(path_forwards))])
    /\ path_nodes' = <<>>
    /\ path_forwards' = <<>>
    /\ pc' = "pick"
    /\ UNCHANGED <<kmer_size, nodes, mask, spellVars, runVars, queryVars>>

\* Step 1: all nodes are masked, the main loop stops.
StopCover ==
    /\ pc = "pick"
    /\ AllMasked
    /\ pc' = "done"
    /\ UNCHANGED <<kmer_size, nodes, mask, path_nodes, path_forwards, paths,
                   to_nodes, to_forwards, spellVars, runVars, queryVars>>

InitCover ==
    /\ forwards = <<>>
    /\ query = NoQuery
    /\ checked = NoCheck
    /\ last = NoRecord
    /\ params = NoParams
    /\ file_list = <<>>
    /\ file_pos = 0
    /\ report = <<>>
    /\ exit_code = "running"
    /\ tally = NoTally
    /\ kmer_size = 3
    /\ IsCoverGraph(nodes)
    /\ pc = "pick"
    /\ mask = [i \in 1..Len(nodes) |-> FALSE]
    /\ path_nodes = <<>>
    /\ path_forwards = <<>>
    /\ paths = <<>>
    /\ to_nodes = <<>>
    /\ to_forwards = <<>>
    /\ contig = NoContig
    /\ counts = <<>>

NextCover ==
    \/ PickSeed
    \/ Extend
    \/ ExtendThrows
    \/ BeginBackward
    \/ FinishPath
    \/ StopCover

SpecCover == InitCover /\ [][NextCover]_vars

(***************************************************************************)
(* Properties of the path cover.                                           *)
(***************************************************************************)
\* The node indices of the completed paths followed by the current path.
RECURSIVE PlacedNodes(_)
PlacedNodes(ps) ==
    IF ps = <<>> THEN <<>> ELSE Head(ps).nodes \o PlacedNodes(Tail(ps))

Occurrences(s, x) == Cardinality({i \in 1..Len(s) : s[i] = x})

\* Node v has an outgoing arc (forward = fv, successor = w, to_forward = fw).
HasArc(g, v, fv, w, fw) ==
    /\ InRange(g, v)
    /\ \E i \in 1..Len(at(g, v).arcs) : at(g, v).arcs[i] = arc_t(fv, w, fw)

\* Every arc (u, f, v, tf) has its mirror arc (v, ~tf, u, ~f).
MirrorSymmetric(g) ==
    \A u \in 0..(Len(g) - 1) : \A i \in 1..Len(at(g, u).arcs) :
        LET a == at(g, u).arcs[i]
        IN  HasArc(g, a.successor, ~a.to_forward, u, ~a.forward)

\* C3: at every state of the builder a node is masked iff it is in the
\* current path or in a completed path, and no node is there twice; when
\* the main loop stops, every node index 0..N-1 is in exactly one completed
\* path, exactly once.
C3_CoverageExact ==
    LET placed == PlacedNodes(paths) \o path_nodes IN
    /\ \A v \in 0..(Len(nodes) - 1) :
          /\ at(mask, v) <=> (v \in Range(placed))
          /\ Occurrences(placed, v) <= 1
    /\ pc = "done" =>
          /\ path_nodes = <<>>
          /\ \A v \in 0..(Len(nodes) - 1) : Occurrences(PlacedNodes(paths), v) = 1
          /\ \A i \in 1..Len(paths) : Range(paths[i].nodes) \subseteq 0..(Len(nodes) - 1)

\* The main loop stopped on a graph with a cycle through both nodes and a
\* self-referencing arc, with both nodes in one path.
C3_Witness ==
    /\ pc = "done"
    /\ Len(nodes) = 2
    /\ Len(paths) = 1
    /\ Len(paths[1].nodes) = 2
    /\ \E f1, f2 \in BOOLEAN : HasArc(nodes, 0, f1, 0, f2)
    /\ \E f1, f2 \in BOOLEAN : HasArc(nodes, 0, f1, 1, f2)

\* The pairs of consecutive steps of the emitted paths.
PathPairs ==
    UNION {{<<p, i>> : i \in 1..(Len(paths[p].nodes) - 1)} : p \in 1..Len(paths)}

\* C4 as claimed: every consecutive pair (v, f_v), (w, f_w) of every emitted
\* path is joined by an outgoing arc of v (f_v, w, f_w).
C4_ArcConsistencyClaimed ==
    \A pi \in PathPairs :
        LET pth == paths[pi[1]]
            i == pi[2]
        IN  HasArc(nodes, pth.nodes[i], pth.forwards[i], pth.nodes[i + 1], pth.forwards[i + 1])

\* C4 as amended: every consecutive pair (v, f_v), (w, f_w) of every emitted
\* path is joined by an outgoing arc of v (f_v, w, f_w), or by the outgoing
\* arc of w (~f_w, v, ~f_v) that the backward extension followed; on a graph
\* whose arcs are mirror-symmetric it is joined by the arc of v.
C4_ArcConsistency ==
    /\ \A pi \in PathPairs :
          LET pth == paths[pi[1]]
              i == pi[2]
          IN  \/ HasArc(nodes, pth.nodes[i], pth.forwards[i],
                        pth.nodes[i + 1], pth.forwards[i + 1])
              \/ HasArc(nodes, pth.nodes[i + 1], ~pth.forwards[i + 1],
                        pth.nodes[i], ~pth.forwards[i])
    /\ MirrorSymmetric(nodes) => C4_ArcConsistencyClaimed

\* A path of two steps that the backward extension made, emitted on a graph
\* that is mirror-symmetric.
C4_Witness ==
    /\ pc = "done"
    /\ MirrorSymmetric(nodes)
    /\ Len(paths) = 1
    /\ paths[1].nodes = <<1, 0>>
    /\ paths[1].forwards = <<TRUE, TRUE>>
    /\ HasArc(nodes, 1, TRUE, 0, TRUE)
    /\ HasArc(nodes, 0, FALSE, 1, FALSE)

(***************************************************************************)
(* The graphs of SpecSpell: two nodes, as the parser stores them (one      *)
(* abundance for every k-mer), each unitig a string over A and T of k - 1  *)
(* to MaxLen characters or one of a few strings with other characters      *)
(* (C and G, lower case, an unknown nucleotide); the abundances of a node  *)
(* differ from each other and from those of the other node; the arcs of a  *)
(* node are all the arcs on which DBG::overlaps holds, as in the output of *)
(* the unitig extractor.                                                   *)
(***************************************************************************)
OtherUnitigs ==
    { <<"A", "C", "G", "T">>, <<"C", "G", "T">>, <<"a", "c", "g">>,
      <<"A", "N", "T">>, <<"G", "C">> }

Unitigs(k) ==
    UNION {[1..l -> {"A", "T"}] : l \in (k - 1)..MaxLen} \cup OtherUnitigs

ArcOrder ==
    << arc_t(TRUE, 0, TRUE), arc_t(TRUE, 0, FALSE), arc_t(TRUE, 1, TRUE),
       arc_t(TRUE, 1, FALSE), arc_t(FALSE, 0, TRUE), arc_t(FALSE, 0, FALSE),
       arc_t(FALSE, 1, TRUE), arc_t(FALSE, 1, FALSE) >>

Bare(v, u, k) ==
    node_t(u, Len(u), [j \in 1..(Len(u) - k + 1) |-> 10 * (v + 1) + j], <<>>)

SpellGraph(u0, u1, k) ==
    LET bare == <<Bare(0, u0, k), Bare(1, u1, k)>>
        Holds(v) == LET Test(a) == overlaps(bare, k, at(bare, v), a) = "true"
                    IN  SelectSeq(ArcOrder, Test)
    IN  [i \in 1..2 |-> [bare[i] EXCEPT !.arcs = Holds(i - 1)]]

\* The input path grows by one step, any node on any side.
AppendStep ==
    /\ pc = "path"
    /\ Len(path_nodes) < MaxPath
    /\ \E v \in 0..(Len(nodes) - 1), f \in BOOLEAN :
          /\ path_nodes' = Append(path_nodes, v)
          /\ path_forwards' = Append(path_forwards, f)
    /\ UNCHANGED <<kmer_size, nodes, pc, coverVars, spellVars, runVars, queryVars>>

\* simplitig = dbg.spell(path_nodes, path_forwards)
Spell ==
    /\ pc = "path"
    /\ contig' = spell(nodes, kmer_size, path_nodes, path_forwards)
    /\ pc' = IF contig'.status = "ok" THEN "spelled" ELSE contig'.status
    /\ UNCHANGED <<kmer_size, nodes, path_nodes, path_forwards, coverVars, counts, runVars, queryVars>>

\* dbg.get_counts(path_nodes, path_forwards, counts): on the vector as the
\* last call left it, empty at the first call.
GetCounts ==
    /\ pc \in {"spelled", "counted"}
    /\ LET r == get_counts(nodes, path_nodes, path_forwards, counts)
       IN  /\ counts' = r.counts
           /\ pc' = IF r.thrown THEN "throw"
                    ELSE IF pc = "spelled" THEN "counted" ELSE "recounted"
    /\ UNCHANGED <<kmer_size, nodes, path_nodes, path_forwards, coverVars, contig, runVars, queryVars>>

InitSpell ==
    /\ forwards = <<>>
    /\ query = NoQuery
    /\ checked = NoCheck
    /\ last = NoRecord
    /\ params = NoParams
    /\ file_list = <<>>
    /\ file_pos = 0
    /\ report = <<>>
    /\ exit_code = "running"
    /\ tally = NoTally
    /\ kmer_size = 3
    /\ \E u0, u1 \in Unitigs(kmer_size) : nodes = SpellGraph(u0, u1, kmer_size)
    /\ pc = "path"
    /\ mask = <<>>
    /\ path_nodes = <<>>
    /\ path_forwards = <<>>
    /\ paths = <<>>
    /\ to_nodes = <<>>
    /\ to_forwards = <<>>
    /\ contig = NoContig
    /\ counts = <<>>

NextSpell ==
    \/ AppendStep
    \/ Spell
    \/ GetCounts

SpecSpell == InitSpell /\ [][NextSpell]_vars

(***************************************************************************)
(* Properties of spell and get_counts.                                     *)
(***************************************************************************)
\* The k-mers of s, left to right.
Kmers(s, k) == [i \in 1..(IF Len(s) >= k THEN Len(s) - k + 1 ELSE 0) |-> SubSeq(s, i, i + k - 1)]

\* The unitig of a step as the step reads it.
Oriented(g, v, f) ==
    IF f THEN at(g, v).unitig ELSE reverse_complement(at(g, v).unitig).s

RECURSIVE StepKmers(_, _, _, _)
StepKmers(g, k, pn, fw) ==
    IF pn = <<>> THEN <<>>
    ELSE Kmers(Oriented(g, Head(pn), Head(fw)), k) \o StepKmers(g, k, Tail(pn), Tail(fw))

RECURSIVE StepCounts(_, _, _)
StepCounts(g, pn, fw) ==
    IF pn = <<>> THEN <<>>
    ELSE (IF Head(fw) THEN at(g, Head(pn)).abundances
          ELSE Reverse(at(g, Head(pn)).abundances)) \o StepCounts(g, Tail(pn), Tail(fw))

\* Every two consecutive steps of the path are joined by an arc.
PathJoined(g, pn, fw) ==
    \A i \in 1..(Len(pn) - 1) : HasArc(g, pn[i], fw[i], pn[i + 1], fw[i + 1])

\* The multiset of the elements of a sequence.
BagOf(s) == [x \in Range(s) |-> Occurrences(s, x)]

\* C1: on a graph that satisfies the overlap invariant, for a non-empty path
\* whose consecutive steps are joined by arcs, the k-mers of spell(path),
\* left to right, are the k-mers of the oriented unitigs of the steps, in
\* path order; so are the multisets.
C1_SpellKmers ==
    ( /\ contig.status = "ok"
      /\ verify_overlaps(nodes, kmer_size) = "true"
      /\ PathJoined(nodes, path_nodes, path_forwards) )
    => /\ Kmers(contig.contig, kmer_size)
            = StepKmers(nodes, kmer_size, path_nodes, path_forwards)
       /\ BagOf(Kmers(contig.contig, kmer_size))
            = BagOf(StepKmers(nodes, kmer_size, path_nodes, path_forwards))

\* A path of two steps joined by an arc was spelled, the second step read
\* backward, both unitigs longer than k.
C1_Witness ==
    /\ contig.status = "ok"
    /\ verify_overlaps(nodes, kmer_size) = "true"
    /\ Len(path_nodes) = 2
    /\ path_nodes[1] # path_nodes[2]
    /\ path_forwards = <<TRUE, FALSE>>
    /\ PathJoined(nodes, path_nodes, path_forwards)
    /\ \A i \in 1..2 : Len(nodes[i].unitig) > kmer_size
    /\ Len(Kmers(contig.contig, kmer_size)) = 4

\* C2: after get_counts on an empty vector, for a path spell spelled, the
\* vector has len(spell(path)) - k + 1 counts: the abundances of the steps
\* in path order, as stored for a step read forward, reversed otherwise.
C2_CountsAligned ==
    pc = "counted" =>
        /\ Len(counts) = Len(contig.contig) - kmer_size + 1
        /\ counts = StepCounts(nodes, path_nodes, path_forwards)

\* Counts of a path of two steps, one read backward with two abundances.
C2_Witness ==
    /\ pc = "counted"
    /\ Len(path_nodes) = 2
    /\ \E i \in 1..2 : ~path_forwards[i] /\ Len(at(nodes, path_nodes[i]).abundances) = 2
    /\ Len(counts) >= 3

(***************************************************************************)
(* SpecParse: DBG::parse_bcalm_file reads its file record by record.  The  *)
(* lines are drawn as they are read: def-lines made of an identifier and   *)
(* of fields, in both dialects, well formed and not.                       *)
(***************************************************************************)
HeaderIds ==
    {ToDecimal(i) : i \in 0..(MaxRecords - 1)}
    \cup {<<"S", "_">> \o ToDecimal(i) : i \in 0..(MaxRecords - 1)}
    \cup {<<"S", "_", "0", "_", "1">>, <<"S", "_", "1", "_", "0">>, <<"x">>}

HeaderFields ==
    {<<"L", "N", ":", "i", ":", "3", " ", "a", "b", ":", "Z", ":", "5">>,
     <<"L", "N", ":", "i", ":", "4", " ", "a", "b", ":", "Z", ":", "5", " ", "6", " ", "L", ":", "+", ":", "1", ":", "-">>,
     <<"L", "N", ":", "i", ":", "9", " ", "a", "b", ":", "Z", ":", "5">>,
     <<"k", "a", ":", "f", ":", "5", ".", "0">>,
     <<"k", "a", ":", "f", ":", "2", ".", "5", " ", "L", ":", "-", ":", "0", ":", "+">>,
     <<"L", "N", ":", "i", ":", "4", " ", "a", "b", ":", "Z", ":", "5", " ", "k", "a", ":", "f", ":", "2", ".", "0">>,
     <<"L", "N", ":", "i", ":", "3">>}

HeaderLines ==
    {<<">">> \o id \o <<" ">> \o f : id \in HeaderIds, f \in HeaderFields}
    \cup {<<"0", " ", "L", "N", ":", "i", ":", "3", " ", "a", "b", ":", "Z", ":", "5">>, <<>>}

CommentLines == {<<"#">>, <<"#", " ", "L", "N", ":", "i", ":", "3">>}

SequenceLines ==
    {[eof |-> FALSE, line |-> u] : u \in {<<"A", "C", "G">>, <<"A", "C", "G", "T">>, <<"A", "C">>, <<"A">>, <<>>}}
    \cup {[eof |-> TRUE, line |-> <<>>]}

\* bcalm_file.open(bcalm_file_name), and exit when the file is not good.
OpenInput ==
    /\ pc = "open"
    /\ \E good \in BOOLEAN : pc' = IF good THEN "parse" ELSE "exit"
    /\ UNCHANGED <<kmer_size, nodes, walkVars, runVars>>

\* A line that starts with '#' is skipped.
ReadComment ==
    /\ pc = "parse"
    /\ \E line \in CommentLines : last' = [kind |-> "comment", line |-> line]
    /\ UNCHANGED <<kmer_size, nodes, pc, walkVars, driverVars>>

\* A def-line and the line after it.
RecordRead(line, seq, r) ==
    /\ last' = [kind |-> "record", line |-> line, seq |-> seq,
                stored_before |-> Len(nodes), status |-> r.status,
                serial |-> r.serial, standard |-> r.standard,
                alternative |-> r.alternative]
    /\ nodes' = IF r.status = "stored" THEN Append(nodes, r.node) ELSE nodes
    /\ pc' = IF r.status = "stored" THEN "parse" ELSE r.status

ReadRecord ==
    /\ pc = "parse"
    /\ Len(nodes) < MaxRecords
    /\ \E line \in HeaderLines, seq \in SequenceLines :
          RecordRead(line, seq, parse_record(line, seq, Len(nodes), kmer_size))
    /\ UNCHANGED <<kmer_size, walkVars, driverVars>>

\* getline finds the end of the file where a def-line could start.
EndOfFile ==
    /\ pc = "parse"
    /\ pc' = "parsed"
    /\ UNCHANGED <<kmer_size, nodes, walkVars, runVars>>

InitParse ==
    /\ forwards = <<>>
    /\ query = NoQuery
    /\ checked = NoCheck
    /\ kmer_size = 3
    /\ nodes = <<>>
    /\ pc = "open"
    /\ mask = <<>>
    /\ path_nodes = <<>>
    /\ path_forwards = <<>>
    /\ paths = <<>>
    /\ to_nodes = <<>>
    /\ to_forwards = <<>>
    /\ contig = NoContig
    /\ counts = <<>>
    /\ last = NoRecord
    /\ params = NoParams
    /\ file_list = <<>>
    /\ file_pos = 0
    /\ report = <<>>
    /\ exit_code = "running"
    /\ tally = NoTally

NextParse ==
    \/ OpenInput
    \/ ReadComment
    \/ ReadRecord
    \/ EndOfFile

SpecParse == InitParse /\ [][NextParse]_vars

(***************************************************************************)
(* The dialect and the serial of a def-line as the format defines them.    *)
(***************************************************************************)
HasTag(line, tag) ==
    \E q \in 1..(Len(line) - Len(tag) + 1) : SubSeq(line, q, q + Len(tag) - 1) = tag

\* The identifier: the characters between '>' and the first space.
IdOf(line) ==
    LET sp == {q \in 2..Len(line) : line[q] = " "}
        e == IF sp = {} THEN Len(line) + 1 ELSE CHOOSE q \in sp : \A r \in sp : q <= r
    IN  SubSeq(line, 2, e - 1)

\* The number after the last '_' of the identifier, or the identifier; -1
\* when that is no number.
SerialOf(line) ==
    LET id == IdOf(line)
        us == {q \in 1..Len(id) : id[q] = "_"}
        b == IF us = {} THEN 0 ELSE CHOOSE q \in us : \A r \in us : q >= r
        ds == SubSeq(id, b + 1, Len(id))
    IN  IF ds # <<>> /\ \A j \in 1..Len(ds) : IsDigit(ds[j]) THEN DecimalValue(ds)
        ELSE 0 - 1

LastIsDefLine == last.kind = "record" /\ last.line # <<>> /\ last.line[1] = ">"

\* C9: a def-line that matches both dialects, or none of them, is rejected
\* as a fatal format error: the parser exits on it (where what the parser
\* does is defined).
C9_ExactlyOneDialect ==
    (/\ LastIsDefLine
     /\ last.status # "ub"
     /\ (HasTag(last.line, TagLN) /\ HasTag(last.line, TagAb)) = HasTag(last.line, TagKa))
    => last.status = "exit"

\* C10: a record is stored only if its serial is the number of nodes stored
\* before it, so that no record with another serial adds a node.
C10_SerialOrder ==
    (LastIsDefLine /\ last.status = "stored") =>
        SerialOf(last.line) = last.stored_before

\* C16: the serial the parser takes from a def-line of the alternative
\* dialect is the number after the last '_' of the identifier, or the whole
\* identifier when it has no '_'.
C16_SerialAfterLastUnderscore ==
    (/\ LastIsDefLine
     /\ last.alternative /\ ~last.standard
     /\ last.status \in {"stored", "exit"}
     /\ SerialOf(last.line) >= 0)
    => last.serial = SerialOf(last.line)

\* C11: every stored node has one abundance per k-mer of its length field,
\* and its length field is the number of characters of its unitig.
C11_LengthInvariant ==
    \A v \in 1..Len(nodes) :
        /\ Len(nodes[v].abundances) = nodes[v].length - kmer_size + 1
        /\ nodes[v].length = Len(nodes[v].unitig)

\* C12: every stored node has a unitig of at least k characters, and so at
\* least one abundance.
C12_UnitigAtLeastK ==
    \A v \in 1..Len(nodes) :
        /\ Len(nodes[v].unitig) >= kmer_size
        /\ Len(nodes[v].abundances) >= 1

(***************************************************************************)
(* SpecOverlap: the debug check of the arcs.  A graph of two nodes is      *)
(* drawn, unitigs of k - 1 characters and more, in upper and in lower      *)
(* case, with arcs that overlap and arcs that do not.  verify_overlaps is  *)
(* called on it, and reverse_complement on a unitig and on what it         *)
(* returned.                                                               *)
(***************************************************************************)
OverlapUnitigs ==
    { <<"A", "T">>, <<"a", "t">>, <<"A", "C", "G">>, <<"C", "G", "T">>,
      <<"a", "c", "g">>, <<"c", "g", "T">>, <<"A", "N", "T">> }
        \cup { [i \in 1..MaxLen |-> IF i % 2 = 1 THEN "A" ELSE "T"],
               [i \in 1..MaxLen |-> IF i % 2 = 1 THEN "T" ELSE "A"] }

OverlapNode(u, k, arcs) ==
    node_t(u, Len(u), [j \in 1..(Len(u) - k + 1) |-> 1], arcs)

IsOverlapGraph(g, k) ==
    \E u0, u1 \in OverlapUnitigs, m \in 0..MaxArcs :
        \E placed \in [1..m -> (0..1) \X ArcSet(1)] :
            g = <<OverlapNode(u0, k, ArcsOf(placed, 0)), OverlapNode(u1, k, ArcsOf(placed, 1))>>

\* bool good = verify_overlaps()
VerifyOverlaps ==
    /\ pc = "debug"
    /\ checked.op = "none"
    /\ checked' = [op |-> "verify_overlaps", input |-> <<>>,
                   result |-> verify_overlaps(nodes, kmer_size), times |-> 1]
    /\ pc' = IF checked'.result \in {"true", "false"} THEN "debug" ELSE checked'.result
    /\ UNCHANGED <<kmer_size, nodes, mask, path_nodes, path_forwards, paths, to_nodes,
                   to_forwards, contig, counts, forwards, query, runVars>>

\* reverse_complement(x) for a unitig x, then of what the call before
\* returned.
ReverseComplement ==
    /\ pc = "debug"
    /\ \/ /\ checked.op = "none"
          /\ \E v \in 1..Len(nodes) :
                checked' = [op |-> "reverse_complement", input |-> nodes[v].unitig,
                            result |-> reverse_complement(nodes[v].unitig), times |-> 1]
       \/ /\ checked.op = "reverse_complement"
          /\ checked.times < 2
          /\ checked' = [checked EXCEPT !.result = reverse_complement(checked.result.s),
                                        !.times = 2]
    /\ pc' = IF checked'.result.exit THEN "exit" ELSE "debug"
    /\ UNCHANGED <<kmer_size, nodes, mask, path_nodes, path_forwards, paths, to_nodes,
                   to_forwards, contig, counts, forwards, query, runVars>>

InitOverlap ==
    /\ forwards = <<>>
    /\ query = NoQuery
    /\ checked = NoCheck
    /\ last = NoRecord
    /\ params = NoParams
    /\ file_list = <<>>
    /\ file_pos = 0
    /\ report = <<>>
    /\ exit_code = "running"
    /\ tally = NoTally
    /\ kmer_size = 3
    /\ IsOverlapGraph(nodes, kmer_size)
    /\ pc = "debug"
    /\ mask = <<>>
    /\ path_nodes = <<>>
    /\ path_forwards = <<>>
    /\ paths = <<>>
    /\ to_nodes = <<>>
    /\ to_forwards = <<>>
    /\ contig = NoContig
    /\ counts = <<>>

NextOverlap ==
    \/ VerifyOverlaps
    \/ ReverseComplement

SpecOverlap == InitOverlap /\ [][NextOverlap]_vars

Nucleotides == {"A", "C", "G", "T", "a", "c", "g", "t"}

IsNucleotideString(s) == \A i \in 1..Len(s) : s[i] \in Nucleotides

Upper(s) ==
    [i \in 1..Len(s) |-> CASE s[i] = "a" -> "A" [] s[i] = "c" -> "C"
                           [] s[i] = "g" -> "G" [] s[i] = "t" -> "T" [] OTHER -> s[i]]

\* A <-> T, C <-> G, in upper case.
Paired(c) ==
    CASE c = "A" -> "T" [] c = "T" -> "A" [] c = "C" -> "G" [] c = "G" -> "C" [] OTHER -> c

revcomp(s) == [i \in 1..Len(s) |-> Paired(Upper(s)[Len(s) + 1 - i])]

FirstChars(s, n) == SubSeq(s, 1, n)

LastChars(s, n) == SubSeq(s, Len(s) - n + 1, Len(s))

suf(u, forward, k) ==
    IF forward THEN LastChars(u.unitig, k - 1) ELSE revcomp(FirstChars(u.unitig, k - 1))

pre(v, to_forward, k) ==
    IF to_forward THEN FirstChars(v.unitig, k - 1) ELSE revcomp(LastChars(v.unitig, k - 1))

\* The graphs C14 is about: every unitig a nucleotide string, every arc to
\* a node of the graph.
ValidGraph(g) ==
    \A u \in 1..Len(g) :
        /\ IsNucleotideString(g[u].unitig)
        /\ \A i \in 1..Len(g[u].arcs) : InRange(g, g[u].arcs[i].successor)

\* C14: on a graph of nucleotide unitigs whose arcs lead to nodes of the
\* graph, verify_overlaps returns true if and only if suf == pre for every
\* arc of every node.
C14_VerifyOverlaps ==
    (checked.op = "verify_overlaps" /\ ValidGraph(nodes)) =>
        /\ checked.result \in {"true", "false"}
        /\ checked.result = "true" <=>
              \A u \in 1..Len(nodes) : \A i \in 1..Len(nodes[u].arcs) :
                  suf(nodes[u], nodes[u].arcs[i].forward, kmer_size)
                      = pre(at(nodes, nodes[u].arcs[i].successor),
                            nodes[u].arcs[i].to_forward, kmer_size)

\* verify_overlaps returned true on a graph with an arc between the two
\* nodes that leaves one backward and enters the other backward, one of the
\* unitigs in lower case.
C14_Witness ==
    /\ checked.op = "verify_overlaps"
    /\ ValidGraph(nodes)
    /\ checked.result = "true"
    /\ \E u \in 1..Len(nodes) : nodes[u].unitig # Upper(nodes[u].unitig)
    /\ \E u \in 1..Len(nodes) : \E i \in 1..Len(nodes[u].arcs) :
          /\ nodes[u].arcs[i].successor # u - 1
          /\ ~nodes[u].arcs[i].forward
          /\ ~nodes[u].arcs[i].to_forward

\* C15 as claimed: the reverse complement of the reverse complement of a
\* nucleotide string, in upper or lower case, is the string.
C15_InvolutionClaimed ==
    (checked.op = "reverse_complement" /\ checked.times = 2
        /\ IsNucleotideString(checked.input))
    => (~checked.result.exit /\ checked.result.s = checked.input)

\* C15: the reverse complement of the reverse complement of a nucleotide
\* string is the string in upper case.
C15_InvolutionUpper ==
    (checked.op = "reverse_complement" /\ checked.times = 2
        /\ IsNucleotideString(checked.input))
    => (~checked.result.exit /\ checked.result.s = Upper(checked.input))

\* reverse_complement was applied twice to a string with both C and G that
\* is not its own reverse complement.
C15_Witness ==
    /\ checked.op = "reverse_complement"
    /\ checked.times = 2
    /\ IsNucleotideString(checked.input)
    /\ "C" \in Range(Upper(checked.input))
    /\ "G" \in Range(Upper(checked.input))
    /\ revcomp(checked.input) # Upper(checked.input)

(***************************************************************************)
(* SpecValidate: the round-trip check.  An input file is drawn, a run of   *)
(* records and comment lines, the records with the serials the parser      *)
(* asks for; parse_bcalm_file builds the graph and validate compares the   *)
(* file with the graph written back.  file_list holds the one input file.  *)
(***************************************************************************)
RecordKinds == {"plain", "arc", "zero", "wide", "alternative"}

\* The two lines of the record with serial n.
RecordLines(kind, n) ==
    CASE kind = "plain" -> << <<">">> \o ToDecimal(n) \o <<" ", "L", "N", ":", "i", ":", "3", " ", "a", "b", ":", "Z", ":", "5">>, <<"A", "C", "G">> >>
      [] kind = "arc" -> << <<">">> \o ToDecimal(n) \o <<" ", "L", "N", ":", "i", ":", "3", " ", "a", "b", ":", "Z", ":", "5", " ", "L", ":", "+", ":", "0", ":", "+">>, <<"A", "C", "G">> >>
      [] kind = "zero" -> << <<">">> \o ToDecimal(n) \o <<" ", "L", "N", ":", "i", ":", "3", " ", "a", "b", ":", "Z", ":", "0", "5">>, <<"A", "C", "G">> >>
      [] kind = "wide" -> << <<">">> \o ToDecimal(n) \o <<" ", " ", "L", "N", ":", "i", ":", "3", " ", " ", "a", "b", ":", "Z", ":", "5">>, <<"A", "C", "G">> >>
      [] kind = "alternative" -> << <<">">> \o ToDecimal(n) \o <<" ", "k", "a", ":", "f", ":", "5", ".", "0">>, <<"A", "C", "G">> >>

RECURSIVE FileLines(_, _)
FileLines(items, n) ==
    IF items = <<>> THEN <<>>
    ELSE IF Head(items) = "comment" THEN << <<"#", " ", "c">> >> \o FileLines(Tail(items), n)
    ELSE RecordLines(Head(items), n) \o FileLines(Tail(items), n + 1)

\* DBG dbg(params.input_file_name, params.kmer_size)
ParseBcalmFile ==
    /\ pc = "construct"
    /\ nodes' = parse_bcalm_file(file_list[1], kmer_size).nodes
    /\ pc' = IF parse_bcalm_file(file_list[1], kmer_size).status = "ok" THEN "verify"
             ELSE parse_bcalm_file(file_list[1], kmer_size).status
    /\ UNCHANGED <<kmer_size, walkVars, runVars>>

\* validate(), as verify_input calls it
Validate ==
    /\ pc = "verify"
    /\ checked' = [op |-> "validate", result |-> validate(file_list[1], nodes)]
    /\ pc' = "verified"
    /\ UNCHANGED <<kmer_size, nodes, mask, path_nodes, path_forwards, paths, to_nodes,
                   to_forwards, contig, counts, forwards, query, runVars>>

InitValidate ==
    /\ forwards = <<>>
    /\ query = NoQuery
    /\ checked = NoCheck
    /\ last = NoRecord
    /\ params = NoParams
    /\ \E m \in 0..(MaxRecords + 1) :
          \E items \in [1..m -> RecordKinds \cup {"comment"}] :
             file_list = <<[kind |-> "file", readable |-> TRUE, out |-> "ok",
                           content |-> FileLines(items, 0)]>>
    /\ file_pos = 1
    /\ report = <<>>
    /\ exit_code = "running"
    /\ tally = NoTally
    /\ kmer_size = 3
    /\ nodes = <<>>
    /\ pc = "construct"
    /\ mask = <<>>
    /\ path_nodes = <<>>
    /\ path_forwards = <<>>
    /\ paths = <<>>
    /\ to_nodes = <<>>
    /\ to_forwards = <<>>
    /\ contig = NoContig
    /\ counts = <<>>

NextValidate ==
    \/ ParseBcalmFile
    \/ Validate

SpecValidate == InitValidate /\ [][NextValidate]_vars

\* C17: validate returns true only if the input file and the graph written
\* back have the same white-space tokens: as many, and the same at every
\* position; it returns false when one file is the beginning of the other.
C17_ValidateIdentical ==
    (checked.op = "validate" /\ checked.result) =>
        FileTokens(file_list[1].content) = FileTokens(to_bcalm_file(nodes))

(***************************************************************************)
(* SpecQuery: a caller asks for the neighbours of the nodes of a graph,    *)
(* with DBG::get_nodes_from and DBG::get_consistent_nodes_from in any      *)
(* order, every call on the same forwards, to_nodes and to_forwards.  The  *)
(* graph has two nodes and the arcs are those of node 0; an arc may name a  *)
(* node the graph has not.                                                 *)
(* query.held is the size of to_nodes when the call began, query.mixed     *)
(* tells that get_consistent_nodes_from was among the calls.               *)
(***************************************************************************)
QueryGraph(arcs) ==
    <<node_t(<<"A", "A", "A">>, 3, <<1>>, arcs), node_t(<<"A", "A", "A">>, 3, <<1>>, <<>>)>>

IsQueryGraph(g) ==
    \E m \in 0..MaxArcs : \E arcs \in [1..m -> ArcSet(Len(QueryGraph(<<>>)))] : g = QueryGraph(arcs)

Asked(op, node, forward, thrown, mixed) ==
    [op |-> op, node |-> node, forward |-> forward, thrown |-> thrown,
     held |-> Len(to_nodes), mixed |-> mixed, calls |-> query.calls + 1]

CallGetNodesFrom ==
    /\ pc = "query"
    /\ query.calls < MaxCalls
    /\ \E node \in 0..(Len(nodes) - 1) :
          LET r == get_nodes_from(nodes, node, forwards, to_nodes, to_forwards, mask)
          IN  /\ forwards' = r.forwards
              /\ to_nodes' = r.to_nodes
              /\ to_forwards' = r.to_forwards
              /\ query' = Asked("get_nodes_from", node, FALSE, r.thrown,
                                query.calls > 0 /\ query.mixed)
              /\ pc' = IF r.thrown THEN "thrown" ELSE "query"
    /\ UNCHANGED <<kmer_size, nodes, mask, path_nodes, path_forwards, paths,
                   spellVars, runVars, checked>>

CallGetConsistentNodesFrom ==
    /\ pc = "query"
    /\ query.calls < MaxCalls
    /\ \E node \in 0..(Len(nodes) - 1), forward \in BOOLEAN :
          LET r == get_consistent_nodes_from(nodes, node, forward, to_nodes, to_forwards, mask)
          IN  /\ to_nodes' = r.to_nodes
              /\ to_forwards' = r.to_forwards
              /\ query' = Asked("get_consistent_nodes_from", node, forward, r.thrown, TRUE)
              /\ pc' = IF r.thrown THEN "thrown" ELSE "query"
    /\ UNCHANGED <<kmer_size, nodes, mask, path_nodes, path_forwards, paths,
                   spellVars, runVars, forwards, checked>>

InitQuery ==
    /\ forwards = <<>>
    /\ query = NoQuery
    /\ checked = NoCheck
    /\ last = NoRecord
    /\ params = NoParams
    /\ file_list = <<>>
    /\ file_pos = 0
    /\ report = <<>>
    /\ exit_code = "running"
    /\ tally = NoTally
    /\ kmer_size = 3
    /\ IsQueryGraph(nodes)
    /\ pc = "query"
    /\ mask \in [1..Len(nodes) -> BOOLEAN]
    /\ path_nodes = <<>>
    /\ path_forwards = <<>>
    /\ paths = <<>>
    /\ to_nodes = <<>>
    /\ to_forwards = <<>>
    /\ contig = NoContig
    /\ counts = <<>>

NextQuery ==
    \/ CallGetNodesFrom
    \/ CallGetConsistentNodesFrom

SpecQuery == InitQuery /\ [][NextQuery]_vars

\* The arcs of the node asked about whose successor is not masked, in the
\* order of the node's arc list.
Unmasked(arcs) == SelectSeq(arcs, LAMBDA a : ~at(mask, a.successor))

OnSide(arcs, forward) == SelectSeq(arcs, LAMBDA a : a.forward = forward)

Successors(arcs) == [i \in 1..Len(arcs) |-> arcs[i].successor]

ToForwards(arcs) == [i \in 1..Len(arcs) |-> arcs[i].to_forward]

Forwards(arcs) == [i \in 1..Len(arcs) |-> arcs[i].forward]

Returned(op) == query.op = op /\ ~query.thrown

\* C13: a call of get_consistent_nodes_from that returns leaves in to_nodes
\* and to_forwards exactly the (successor, to_forward) pairs of the node's
\* arcs that leave its asked side and whose successor is not masked, in arc
\* order, whatever the vectors held before; no returned node is masked.
C13_ConsistentNeighbors ==
    Returned("get_consistent_nodes_from") =>
        /\ to_nodes = Successors(OnSide(Unmasked(at(nodes, query.node).arcs), query.forward))
        /\ to_forwards = ToForwards(OnSide(Unmasked(at(nodes, query.node).arcs), query.forward))
        /\ \A i \in 1..Len(to_nodes) : ~at(mask, to_nodes[i])

\* A returning call on vectors that held something, which kept an arc and
\* skipped an arc of the asked side whose successor is masked.
C13_Witness ==
    /\ Returned("get_consistent_nodes_from")
    /\ query.held > 0
    /\ to_nodes # <<>>
    /\ \E i \in 1..Len(at(nodes, query.node).arcs) :
          /\ at(nodes, query.node).arcs[i].forward = query.forward
          /\ at(mask, at(nodes, query.node).arcs[i].successor)

\* C19: after get_nodes_from calls on the same three vectors, the vectors
\* have one length and their i-th entries are the forward, successor and
\* to_forward of one arc, the i-th unmasked arc of the node asked about.
C19_VectorsAligned ==
    (Returned("get_nodes_from") /\ ~query.mixed) =>
        /\ Len(forwards) = Len(to_nodes)
        /\ Len(to_nodes) = Len(to_forwards)
        /\ forwards = Forwards(Unmasked(at(nodes, query.node).arcs))
        /\ to_nodes = Successors(Unmasked(at(nodes, query.node).arcs))
        /\ to_forwards = ToForwards(Unmasked(at(nodes, query.node).arcs))

(***************************************************************************)
(* SpecPath: a caller fills a vector of nodes and a vector of sides, each  *)
(* on its own, and calls DBG::check_path_consistency on a graph of two     *)
(* nodes with the arcs on node 0.  A node of the path may be one the graph *)
(* has not.  Where the behaviour of the call is undefined, any outcome.    *)
(***************************************************************************)
IsPathGraph(g) ==
    \E m \in 0..MaxArcs : \E arcs \in [1..m -> ArcSet(1)] : g = QueryGraph(arcs)

PushNode ==
    /\ pc = "path"
    /\ Len(path_nodes) < MaxPath
    /\ \E v \in 0..Len(nodes) : path_nodes' = Append(path_nodes, v)
    /\ UNCHANGED <<kmer_size, nodes, pc, path_forwards, coverVars, spellVars, runVars,
                   queryVars>>

PushForward ==
    /\ pc = "path"
    /\ Len(path_forwards) < MaxPath
    /\ \E f \in BOOLEAN : path_forwards' = Append(path_forwards, f)
    /\ UNCHANGED <<kmer_size, nodes, pc, path_nodes, coverVars, spellVars, runVars,
                   queryVars>>

CheckPathConsistency ==
    /\ pc = "path"
    /\ \E outcome \in IF check_path_consistency(nodes, path_nodes, path_forwards) = "ub"
                      THEN {"true", "false", "throw", "crash"}
                      ELSE {check_path_consistency(nodes, path_nodes, path_forwards)} :
          /\ checked' = [op |-> "check_path_consistency", result |-> outcome]
          /\ pc' = IF outcome \in {"true", "false"} THEN "checked" ELSE outcome
    /\ UNCHANGED <<kmer_size, nodes, path_nodes, path_forwards, coverVars, spellVars,
                   runVars, forwards, query>>

InitPath ==
    /\ forwards = <<>>
    /\ query = NoQuery
    /\ checked = NoCheck
    /\ last = NoRecord
    /\ params = NoParams
    /\ file_list = <<>>
    /\ file_pos = 0
    /\ report = <<>>
    /\ exit_code = "running"
    /\ tally = NoTally
    /\ kmer_size = 3
    /\ IsPathGraph(nodes)
    /\ pc = "path"
    /\ mask = <<>>
    /\ path_nodes = <<>>
    /\ path_forwards = <<>>
    /\ paths = <<>>
    /\ to_nodes = <<>>
    /\ to_forwards = <<>>
    /\ contig = NoContig
    /\ counts = <<>>

NextPath ==
    \/ PushNode
    \/ PushForward
    \/ CheckPathConsistency

SpecPath == InitPath /\ [][NextPath]_vars

\* Every step of the path but the last has an arc to the next step: from
\* its side, to the next node, entering it on the side of the next step.
ArcConsistent(g, pn, fw) ==
    \A i \in 1..(Len(pn) - 1) :
        /\ InRange(g, pn[i])
        /\ \E j \in 1..Len(at(g, pn[i]).arcs) :
              at(g, pn[i]).arcs[j] = arc_t(fw[i], pn[i + 1], fw[i + 1])

\* C18: check_path_consistency returns a boolean, and it returns true if
\* and only if the two vectors have the same length and every consecutive
\* pair of steps has an arc (forward = f_v, successor = w, to_forward =
\* f_w); paths of length 0 and 1 included.
C18_PathConsistency ==
    checked.op = "check_path_consistency" =>
        /\ checked.result \in {"true", "false"}
        /\ checked.result = "true" <=>
              /\ Len(path_nodes) = Len(path_forwards)
              /\ ArcConsistent(nodes, path_nodes, path_forwards)

(***************************************************************************)
(* SpecDriver: ustar.cpp.  The command line, the file list and the input   *)
(* files are drawn where the program reads them.  Of the options the model *)
(* keeps -i, -k, -d, -b and -n.  An input file is [kind, readable, out,    *)
(* content]: out tells which of its output files cannot be opened.  Every  *)
(* input has output files of its own.  A disk file is "untouched" (absent, *)
(* or as it was before the run), "empty" or "written".                     *)
(***************************************************************************)
DefaultKmerSize == 31

KmerArgs == {0 - 1, 0, 3, 4}

InputFile(out, content) ==
    [kind |-> "file", readable |-> TRUE, out |-> out, content |-> content]

MissingFile == [kind |-> "file", readable |-> FALSE, out |-> "ok", content |-> <<>>]

EmptyLine == [kind |-> "empty", readable |-> FALSE, out |-> "ok", content |-> <<>>]

GoodContent == <<<<">", "0", " ", "L", "N", ":", "i", ":", "3", " ", "a", "b", ":", "Z", ":", "5">>, <<"A", "C", "G">>>>

InputFiles ==
    {InputFile(out, GoodContent) : out \in {"ok", "fasta_fails", "counts_fails"}}
    \cup {InputFile("ok", c) : c \in
            {<<<<">", "0", " ", "L", "N", ":", "i", ":", "3", " ", "a", "b", ":", "Z", ":", "5", " ", "L", ":", "+", ":", "1", ":", "+">>, <<"A", "C", "G">>,
               <<">", "1", " ", "L", "N", ":", "i", ":", "3", " ", "a", "b", ":", "Z", ":", "7", " ", "L", ":", "-", ":", "0", ":", "-">>, <<"C", "G", "T">>>>,
             <<<<">", "0", " ", "k", "a", ":", "f", ":", "5", ".", "0">>, <<"A", "C", "G", "T">>>>,
             <<<<">", "0", " ", "L", "N", ":", "i", ":", "3", " ", "a", "b", ":", "Z", ":", "5", " ", "L", ":", "+", ":", "0", ":", "+">>, <<"A", "C", "G">>>>,
             <<<<"0", " ", "L", "N", ":", "i", ":", "3", " ", "a", "b", ":", "Z", ":", "5">>, <<"A", "C", "G">>>>,
             <<<<">", "x", " ", "k", "a", ":", "f", ":", "5", ".", "0">>, <<"A", "C", "G">>>>,
             <<<<">", "0", " ", "L", "N", ":", "i", ":", "3", " ", "a", "b", ":", "Z", ":", "5", " ", "L", ":", "+", ":", "1", ":", "+">>, <<"A", "C", "G">>>>}}
    \cup {MissingFile}

ListLines == InputFiles \cup {EmptyLine}

Fresh ==
    [outcome |-> "none", fasta |-> "untouched", counts |-> "untouched",
     constructed |-> FALSE, verified |-> "none", dump |-> FALSE]

\* parse_cli: the options -k, -d, -b, -n and -i, -k first.
ParseCli ==
    /\ pc = "cli"
    /\ \E given, got_input, ends_unitigs_fa, d, b, n \in BOOLEAN :
       \E size \in IF given THEN KmerArgs ELSE {DefaultKmerSize} :
          LET stop == IF size <= 0 THEN "EXIT_FAILURE"
                      ELSE IF size % 2 = 0 THEN "EXIT_SUCCESS"
                      ELSE IF ~got_input THEN "EXIT_FAILURE"
                      ELSE "running"
          IN  /\ params' = [kmer_given |-> given, kmer_size |-> size, debug |-> d,
                            batch_mode |-> b \/ ~ends_unitigs_fa, skip_counts |-> n]
              /\ exit_code' = stop
              /\ pc' = IF stop = "running" THEN "main" ELSE "exited"
              /\ kmer_size' = size
    /\ UNCHANGED <<nodes, walkVars, last, file_list, file_pos, report, tally>>

\* main, batch mode: the file list is opened.
OpenFileList ==
    /\ pc = "main"
    /\ params.batch_mode
    /\ \E good \in BOOLEAN :
          IF good
          THEN /\ \E m \in 0..MaxFiles : \E l \in [1..m -> ListLines] :
                     /\ file_list' = l
                     /\ report' = [i \in 1..m |-> Fresh]
               /\ pc' = "loop"
               /\ UNCHANGED exit_code
          ELSE /\ pc' = "exited"
               /\ exit_code' = "EXIT_FAILURE"
               /\ UNCHANGED <<file_list, report>>
    /\ UNCHANGED <<kmer_size, nodes, walkVars, last, params, file_pos, tally>>

\* main, single mode: process_single_file on the input file, which nothing
\* has opened yet.
StartSingle ==
    /\ pc = "main"
    /\ ~params.batch_mode
    /\ \E f \in InputFiles :
          /\ file_list' = <<f>>
          /\ report' = <<[Fresh EXCEPT !.outcome = "started"]>>
    /\ file_pos' = 1
    /\ pc' = "preopen"
    /\ UNCHANGED <<kmer_size, nodes, walkVars, last, params, exit_code, tally>>

\* The loop of main: the list is at its end.
ListEnd ==
    /\ pc = "loop"
    /\ file_pos = Len(file_list)
    /\ pc' = "finish"
    /\ UNCHANGED <<kmer_size, nodes, walkVars, runVars>>

\* The loop of main: an empty line, or a file that cannot be opened.
SkipListLine ==
    /\ pc = "loop"
    /\ file_pos < Len(file_list)
    /\ LET f == file_list[file_pos + 1] IN
          /\ f.kind = "empty" \/ ~f.readable
          /\ file_pos' = file_pos + 1
          /\ IF f.kind = "empty" THEN UNCHANGED <<report, tally>>
             ELSE /\ report' = [report EXCEPT ![file_pos + 1].outcome = "missing"]
                  /\ tally' = [tally EXCEPT !.file_count = @ + 1]
    /\ UNCHANGED <<kmer_size, nodes, pc, walkVars, last, params, file_list, exit_code>>

\* The loop of main: process_single_file is called on the next file.
StartListedFile ==
    /\ pc = "loop"
    /\ file_pos < Len(file_list)
    /\ LET f == file_list[file_pos + 1] IN f.kind = "file" /\ f.readable
    /\ file_pos' = file_pos + 1
    /\ report' = [report EXCEPT ![file_pos + 1].outcome = "started"]
    /\ tally' = [tally EXCEPT !.file_count = @ + 1]
    /\ pc' = "preopen"
    /\ UNCHANGED <<kmer_size, nodes, walkVars, last, params, file_list, exit_code>>

\* How process_single_file is left: [pc, exit_code, tally].  "return": main
\* goes on, and counts a success in batch mode; "throw": the handler of the
\* loop of main in batch mode, no handler in single mode; "exit": exit
\* (EXIT_FAILURE); "crash": the process is killed by a signal.
Leave(how) ==
    CASE how = "return" ->
            [pc |-> IF params.batch_mode THEN "loop" ELSE "finish",
             exit_code |-> exit_code,
             tally |-> IF params.batch_mode
                       THEN [tally EXCEPT !.success_count = @ + 1] ELSE tally]
      [] how = "throw" ->
            [pc |-> IF params.batch_mode THEN "loop" ELSE "exited",
             exit_code |-> IF params.batch_mode THEN exit_code ELSE "SIGABRT",
             tally |-> tally]
      [] how = "exit" ->
            [pc |-> "exited", exit_code |-> "EXIT_FAILURE", tally |-> tally]
      [] how = "crash" ->
            [pc |-> "exited", exit_code |-> "SIGSEGV", tally |-> tally]

\* What undefined behaviour may turn into, of the outcomes a step handles.
Outcomes(status, any) == IF status = "ub" THEN any ELSE {status}

\* A slip: the file is opened without being truncated.
ofstream_open_keep(good, before) == before

\* ofstream(name): the file is created, or truncated, when it can be opened.
ofstream_open(good, before) == IF good THEN "empty" ELSE before

\* process_single_file, up to the construction of the graph: both output
\* files are opened, and closed, to see that they can be written.
PrepareOutputs ==
    /\ pc = "preopen"
    /\ LET f == file_list[file_pos]
           r == report[file_pos]
           fasta_good == f.out # "fasta_fails"
           counts_good == f.out # "counts_fails"
           r1 == [r EXCEPT !.fasta = ofstream_open(fasta_good, @)]
           r2 == IF fasta_good /\ ~params.skip_counts
                 THEN [r1 EXCEPT !.counts = ofstream_open(counts_good, @)] ELSE r1
           ready == fasta_good /\ (params.skip_counts \/ counts_good)
           l == Leave("return")
       IN  IF ready
           THEN /\ report' = [report EXCEPT ![file_pos] = r2]
                /\ pc' = "construct"
                /\ UNCHANGED <<exit_code, tally>>
           ELSE /\ report' = [report EXCEPT ![file_pos] =
                                 [r2 EXCEPT !.outcome = "unwritable"]]
                /\ pc' = l.pc
                /\ exit_code' = l.exit_code
                /\ tally' = l.tally
    /\ UNCHANGED <<kmer_size, nodes, walkVars, last, params, file_list, file_pos>>

\* process_single_file is left: how as in Leave, l what Leave gives.
LeaveWith(outcome, l) ==
    /\ nodes' = <<>>
    /\ report' = [report EXCEPT ![file_pos].outcome = outcome]
    /\ pc' = l.pc
    /\ exit_code' = l.exit_code
    /\ tally' = l.tally

\* DBG dbg(input_file, params.kmer_size, params.debug)
Constructed(r) ==
    \E how \in Outcomes(r.status, {"exit", "throw", "crash"}) :
       IF how = "ok"
       THEN /\ nodes' = r.nodes
            /\ report' = [report EXCEPT ![file_pos].constructed = TRUE]
            /\ pc' = IF params.debug THEN "verify" ELSE "cover"
            /\ UNCHANGED <<exit_code, tally>>
       ELSE LeaveWith(how, Leave(how))

Construct ==
    /\ pc = "construct"
    /\ Constructed(parse_bcalm_file(file_list[file_pos], kmer_size))
    /\ UNCHANGED <<kmer_size, walkVars, last, params, file_list, file_pos>>

\* if(params.debug) if(!dbg.verify_input()) return;
Verified(v) ==
    \E how \in Outcomes(IF v.status # "ok" THEN v.status
                        ELSE IF v.good THEN "good" ELSE "bad",
                        {"good", "bad", "exit", "throw", "crash"}) :
       IF how = "good"
       THEN /\ report' = [report EXCEPT ![file_pos].verified = "good",
                                       ![file_pos].dump = TRUE]
            /\ pc' = "cover"
            /\ UNCHANGED <<nodes, exit_code, tally>>
       ELSE /\ nodes' = <<>>
            /\ report' = [report EXCEPT
                             ![file_pos].verified = IF how = "bad" THEN "bad" ELSE @,
                             ![file_pos].dump = v.validated \/ how = "bad",
                             ![file_pos].outcome = IF how = "bad" THEN "bad_input" ELSE how]
            /\ pc' = Leave(IF how = "bad" THEN "return" ELSE how).pc
            /\ exit_code' = Leave(IF how = "bad" THEN "return" ELSE how).exit_code
            /\ tally' = Leave(IF how = "bad" THEN "return" ELSE how).tally

VerifyInput ==
    /\ pc = "verify"
    /\ Verified(verify_input(file_list[file_pos], nodes, kmer_size))
    /\ UNCHANGED <<kmer_size, walkVars, last, params, file_list, file_pos>>

\* The path cover of a graph: every node becomes the end of a path and is
\* asked for its neighbours, and mask.at throws on an arc to no node.
cover_throws(g) ==
    \E v \in 1..Len(g) : \E j \in 1..Len(g[v].arcs) : ~InRange(g, g[v].arcs[j].successor)

\* process_single_file, the rest: the path cover, the simplitigs and their
\* counts, the encoding, and both output files written.
ComputeAndWrite ==
    /\ pc = "cover"
    /\ LET thrown == cover_throws(nodes)
           l == Leave(IF thrown THEN "throw" ELSE "return")
       IN  /\ report' = [report EXCEPT ![file_pos] =
                 IF thrown THEN [@ EXCEPT !.outcome = "throw"]
                 ELSE [@ EXCEPT !.outcome = "ok", !.fasta = "written",
                                !.counts = IF params.skip_counts THEN @ ELSE "written"]]
           /\ pc' = l.pc
           /\ exit_code' = l.exit_code
           /\ tally' = l.tally
    /\ nodes' = <<>>
    /\ UNCHANGED <<kmer_size, walkVars, last, params, file_list, file_pos>>

\* return EXIT_SUCCESS
ReturnFromMain ==
    /\ pc = "finish"
    /\ pc' = "exited"
    /\ exit_code' = "EXIT_SUCCESS"
    /\ UNCHANGED <<kmer_size, nodes, walkVars, last, params, file_list, file_pos,
                   report, tally>>

InitDriver ==
    /\ forwards = <<>>
    /\ query = NoQuery
    /\ checked = NoCheck
    /\ kmer_size = DefaultKmerSize
    /\ nodes = <<>>
    /\ pc = "cli"
    /\ mask = <<>>
    /\ path_nodes = <<>>
    /\ path_forwards = <<>>
    /\ paths = <<>>
    /\ to_nodes = <<>>
    /\ to_forwards = <<>>
    /\ contig = NoContig
    /\ counts = <<>>
    /\ last = NoRecord
    /\ params = NoParams
    /\ file_list = <<>>
    /\ file_pos = 0
    /\ report = <<>>
    /\ exit_code = "running"
    /\ tally = NoTally

NextDriver ==
    \/ ParseCli
    \/ OpenFileList
    \/ StartSingle
    \/ ListEnd
    \/ SkipListLine
    \/ StartListedFile
    \/ PrepareOutputs
    \/ Construct
    \/ VerifyInput
    \/ ComputeAndWrite
    \/ ReturnFromMain

SpecDriver == InitDriver /\ [][NextDriver]_vars

(***************************************************************************)
(* Properties of the driver.                                               *)
(***************************************************************************)
\* The lines of the list that name a file.
Inputs == {i \in 1..Len(file_list) : file_list[i].kind = "file"}

Failed(i) == report[i].outcome \in {"exit", "throw", "crash", "bad_input"}

\* C5: in batch mode a failure on one input does not keep the inputs after
\* it from being processed: when the process has ended, every file of the
\* list has been started.
C5_FailureIsolation ==
    (pc = "exited" /\ params.batch_mode) =>
        \A i \in Inputs : report[i].outcome # "none"

\* C6, as claimed: an input whose graph has not been constructed has its
\* output files untouched.
C6_NoOutputBeforeConstruction ==
    \A i \in 1..Len(report) :
        ~report[i].constructed =>
            report[i].fasta = "untouched" /\ report[i].counts = "untouched"

\* C6: an output file is written only after the graph of its input has been
\* constructed and, with debug, verified; but both files are created or
\* truncated before the construction, so that an input that fails later is
\* left with an empty FASTA file, and an empty counts file unless the counts
\* are skipped.
C6_NoContentBeforeConstruction ==
    \A i \in 1..Len(report) :
        /\ (report[i].fasta = "written" \/ report[i].counts = "written") =>
              /\ report[i].constructed
              /\ params.debug => report[i].verified = "good"
        /\ Failed(i) =>
              /\ report[i].fasta = "empty"
              /\ report[i].counts = IF params.skip_counts THEN "untouched" ELSE "empty"

\* An input that failed in parsing, its output files created empty.
C6_Witness ==
    \E i \in 1..Len(report) :
        /\ ~report[i].constructed
        /\ report[i].outcome \in {"exit", "throw"}
        /\ report[i].fasta = "empty"
        /\ report[i].counts = "empty"

\* The graph of a file fails the verification: an arc does not overlap, or
\* the graph written back differs from the file.
FailsOn(file, g, k) ==
    \/ verify_overlaps(g, k) = "false"
    \/ verify_overlaps(g, k) = "true" /\ ~validate(file, g)

FailsVerification(i) ==
    /\ params.debug
    /\ report[i].constructed
    /\ FailsOn(file_list[i], parse_bcalm_file(file_list[i], kmer_size).nodes, kmer_size)

\* C7, as claimed: with debug, an input that fails the verification still
\* has its outputs written.
C7_VerificationDiagnosticOnly ==
    \A i \in 1..Len(report) :
        (FailsVerification(i) /\ report[i].outcome # "started") =>
            /\ report[i].fasta = "written"
            /\ params.skip_counts \/ report[i].counts = "written"

\* C7: with debug, an input that fails the overlap verification or the
\* round-trip validation is given up: nothing is written to its output
\* files, the validation has run whatever the overlap verification said,
\* and the driver returns as after a success: exit code 0 in single mode.
C7_FailedVerificationAborts ==
    \A i \in 1..Len(report) :
        FailsVerification(i) =>
            /\ report[i].fasta # "written" /\ report[i].counts # "written"
            /\ report[i].outcome \in {"started", "bad_input"}
            /\ report[i].outcome = "bad_input" =>
                  /\ report[i].dump
                  /\ (pc = "exited" /\ ~params.batch_mode) => exit_code = "EXIT_SUCCESS"

\* An input given up after a failed verification, its output files empty.
C7_Witness ==
    \E i \in 1..Len(report) :
        /\ FailsVerification(i)
        /\ report[i].outcome = "bad_input"
        /\ report[i].fasta = "empty"
        /\ pc = "exited"

\* C8: an even or non-positive kmer size ends the process with a non-zero
\* exit code before any input is read, and exit code 0 means success: every
\* input was processed to its outputs.
C8_ExitCodes ==
    pc = "exited" =>
        /\ (params.kmer_size <= 0 \/ params.kmer_size % 2 = 0) =>
              exit_code # "EXIT_SUCCESS" /\ file_list = <<>>
        /\ exit_code = "EXIT_SUCCESS" =>
              \A i \in Inputs : report[i].outcome = "ok"

====
